---- MODULE Spec2Model ----
(***************************************************************************)
(* xbsearch.py: read a word list, search each word (plus an optional dork) *)
(* through the DDGS text search, reduce every result URL to scheme://host/ *)
(* filter by the dork's TLD, and write the sorted unique set to a file.    *)
(*                                                                         *)
(* Python strings are modelled as sequences of one-character strings, so   *)
(* strip(), lower(), endswith(), re.search(), urlparse() and sorted() are  *)
(* computed character by character.  An optional value (None or a value)   *)
(* is a sequence of length 0 or 1.                                         *)
(***************************************************************************)
EXTENDS Integers, Sequences, FiniteSets, TLC

\* ---------------------------------------------------------------- bounds
\* Largest number of lines in the input file.
MaxLines == 2
\* Largest number of hit records the provider returns for one query.
MaxHits == 2

\* ------------------------------------------------------ optional values
None == <<>>
Some(x) == <<x>>

\* ------------------------------------------------------------ characters
LowerCase == <<"a", "b", "c", "d", "e", "f", "g", "h", "i", "j", "k", "l", "m", "n", "o", "p", "q", "r", "s", "t", "u", "v", "w", "x", "y", "z">>
UpperCase == <<"A", "B", "C", "D", "E", "F", "G", "H", "I", "J", "K", "L", "M", "N", "O", "P", "Q", "R", "S", "T", "U", "V", "W", "X", "Y", "Z">>
DigitChars == <<"0", "1", "2", "3", "4", "5", "6", "7", "8", "9">>
\* The characters U+0020 .. U+007E in code-point order (U+0060, which no
\* string of the model holds, is spelled by name).
Printable == <<" ", "!", "\"", "#", "$", "%", "&", "'", "(", ")", "*", "+", ",", "-", ".", "/", "0", "1", "2", "3", "4", "5", "6", "7", "8", "9", ":", ";", "<", "=", ">", "?", "@", "A", "B", "C", "D", "E", "F", "G", "H", "I", "J", "K", "L", "M", "N", "O", "P", "Q", "R", "S", "T", "U", "V", "W", "X", "Y", "Z", "[", "\\", "]", "^", "_", "U+0060", "a", "b", "c", "d", "e", "f", "g", "h", "i", "j", "k", "l", "m", "n", "o", "p", "q", "r", "s", "t", "u", "v", "w", "x", "y", "z", "{", "|", "}", "~">>

Range(s) == {s[i] : i \in DOMAIN s}
Letters == Range(LowerCase) \cup Range(UpperCase)
Digits == Range(DigitChars)
Chars == Range(Printable) \cup {"\n", "\t", "\r"}

\* Code point of a character (Python compares str by code point).
Ord ==
  [c \in Chars |->
     IF c = "\t" THEN 9
     ELSE IF c = "\n" THEN 10
     ELSE IF c = "\r" THEN 13
     ELSE 31 + (CHOOSE i \in DOMAIN Printable : Printable[i] = c)]

\* str.lower() on one character, then on a string.
LowerChar ==
  [c \in Chars |->
     IF c \in Range(UpperCase)
     THEN LowerCase[CHOOSE i \in DOMAIN UpperCase : UpperCase[i] = c]
     ELSE c]

Lower(s) == [i \in DOMAIN s |-> LowerChar[s[i]]]

\* a < b for Python str: the first differing code point decides, a proper
\* prefix is smaller.
StrLess(a, b) ==
  \E i \in 1..(Len(b)) :
     /\ i <= Len(a) + 1
     /\ \A j \in 1..(i - 1) : a[j] = b[j]
     /\ \/ i = Len(a) + 1
        \/ Ord[a[i]] < Ord[b[i]]

\* s.endswith(suffix)
EndsWith(s, suffix) ==
  /\ Len(suffix) <= Len(s)
  /\ SubSeq(s, Len(s) - Len(suffix) + 1, Len(s)) = suffix

\* s starts with prefix at position i (1-based).
MatchAt(s, i, prefix) ==
  /\ i + Len(prefix) - 1 <= Len(s)
  /\ SubSeq(s, i, i + Len(prefix) - 1) = prefix

\* str.find(c, start): the first position >= start holding c, 0 if none
\* (positions are 1-based here, so 0 plays the part of the -1 of Python).
Find(s, c, start) ==
  IF \E i \in start..Len(s) : s[i] = c
  THEN CHOOSE i \in start..Len(s) : s[i] = c /\ \A j \in start..(i - 1) : s[j] # c
  ELSE 0

\* str.strip(): drop leading and trailing white space.
WhiteSpace == {" ", "\t", "\n", "\r"}

RECURSIVE LStrip(_, _)
LStrip(s, drop) ==
  IF s # <<>> /\ Head(s) \in drop THEN LStrip(Tail(s), drop) ELSE s

RECURSIVE RStrip(_, _)
RStrip(s, drop) ==
  IF s # <<>> /\ s[Len(s)] \in drop THEN RStrip(SubSeq(s, 1, Len(s) - 1), drop) ELSE s

Strip(s) == RStrip(LStrip(s, WhiteSpace), WhiteSpace)

\* s.replace(c, "") for every c of a set.
RECURSIVE RemoveChars(_, _)
RemoveChars(s, drop) ==
  IF s = <<>> THEN <<>>
  ELSE IF Head(s) \in drop THEN RemoveChars(Tail(s), drop)
  ELSE <<Head(s)>> \o RemoveChars(Tail(s), drop)

\* Mutant of SelectNonBlank: `if line` in place of `if line.strip()`, so a
\* line of white space is kept as an empty word.
RECURSIVE SelectNonEmpty(_)
SelectNonEmpty(lines) ==
  IF lines = <<>> THEN <<>>
  ELSE IF Head(lines) # <<>>
       THEN <<Strip(Head(lines))>> \o SelectNonEmpty(Tail(lines))
       ELSE SelectNonEmpty(Tail(lines))

\* [line.strip() for line in f if line.strip()]
RECURSIVE SelectNonBlank(_)
SelectNonBlank(lines) ==
  IF lines = <<>> THEN <<>>
  ELSE IF Strip(Head(lines)) # <<>>
       THEN <<Strip(Head(lines))>> \o SelectNonBlank(Tail(lines))
       ELSE SelectNonBlank(Tail(lines))

\* sorted(list(S)) for a set of strings: ascending by StrLess.
RECURSIVE Sorted(_)
Sorted(S) ==
  IF S = {} THEN <<>>
  ELSE LET least == CHOOSE x \in S : \A y \in S \ {x} : StrLess(x, y)
       IN <<least>> \o Sorted(S \ {least})

\* -------------------------------------------------- re.search on the dork
\* The pattern  site:\*\.(?P<tld>[a-zA-Z0-9\-\.]+)
SitePrefix == <<"s", "i", "t", "e", ":", "*", ".">>
TldClass == Letters \cup Digits \cup {"-", "."}

\* Positions where the literal part matches and one class character follows.
MatchStarts(d) ==
  {i \in 1..Len(d) :
     /\ MatchAt(d, i, SitePrefix)
     /\ i + Len(SitePrefix) <= Len(d)
     /\ d[i + Len(SitePrefix)] \in TldClass}

\* re.search(...).group('tld'): the leftmost match, the capture as long as
\* the class allows; None when the pattern occurs nowhere.
ReSearchTld(d) ==
  IF MatchStarts(d) = {} THEN None
  ELSE LET i == CHOOSE k \in MatchStarts(d) : \A m \in MatchStarts(d) : k <= m
           from == i + Len(SitePrefix)
           to == CHOOSE e \in from..Len(d) :
                   /\ \A j \in from..e : d[j] \in TldClass
                   /\ e = Len(d) \/ d[e + 1] \notin TldClass
       IN Some(SubSeq(d, from, to))

\* ------------------------------------------------- urllib.parse.urlparse
SchemeChars == Letters \cup Digits \cup {"+", "-", "."}
\* The C0 control characters and the space that urlsplit strips on the left,
\* and the characters it deletes anywhere.
C0ControlOrSpace == {" ", "\t", "\n", "\r"}
UnsafeUrlBytes == {"\t", "\r", "\n"}

\* _splitnetloc(url, 2) for a url that starts with "//": the authority ends
\* before the first of / ? # .
NetlocEnd(url) ==
  LET stops == {i \in 3..Len(url) : url[i] \in {"/", "?", "#"}}
  IN IF stops = {} THEN Len(url)
     ELSE (CHOOSE i \in stops : \A j \in stops : i <= j) - 1

\* urlparse(url): [raises |-> TRUE] stands for the ValueError urlsplit raises
\* on an authority with one square bracket but not the other.  (urlsplit
\* also validates an authority that holds both brackets as an IP literal and
\* one that holds non-ASCII characters; no URL of UrlSet has either.)
UrlParse(raw) ==
  LET url0 == RemoveChars(LStrip(raw, C0ControlOrSpace), UnsafeUrlBytes)
      i == Find(url0, ":", 1)
      hasScheme == /\ i > 1
                   /\ url0[1] \in Letters
                   /\ \A j \in 1..(i - 1) : url0[j] \in SchemeChars
      scheme == IF hasScheme THEN Lower(SubSeq(url0, 1, i - 1)) ELSE <<>>
      url1 == IF hasScheme THEN SubSeq(url0, i + 1, Len(url0)) ELSE url0
      hasNetloc == MatchAt(url1, 1, <<"/", "/">>)
      netloc == IF hasNetloc THEN SubSeq(url1, 3, NetlocEnd(url1)) ELSE <<>>
      url2 == IF hasNetloc THEN SubSeq(url1, NetlocEnd(url1) + 1, Len(url1)) ELSE url1
      h == Find(url2, "#", 1)
      fragment == IF h > 0 THEN SubSeq(url2, h + 1, Len(url2)) ELSE <<>>
      url3 == IF h > 0 THEN SubSeq(url2, 1, h - 1) ELSE url2
      q == Find(url3, "?", 1)
      query == IF q > 0 THEN SubSeq(url3, q + 1, Len(url3)) ELSE <<>>
      path == IF q > 0 THEN SubSeq(url3, 1, q - 1) ELSE url3
  IN [raises |-> ("[" \in Range(netloc)) # ("]" \in Range(netloc)),
      scheme |-> scheme, netloc |-> netloc, path |-> path,
      query |-> query, fragment |-> fragment]

\* Mutant of FullUrl: the host is lower-cased (as parsed_url.hostname is).
FullUrlLowerHost(p) == p.scheme \o <<":", "/", "/">> \o Lower(p.netloc) \o <<"/">>

\* f"{parsed_url.scheme}://{parsed_url.netloc}/"
FullUrl(p) == p.scheme \o <<":", "/", "/">> \o p.netloc \o <<"/">>

\* Mutant of PassesFilter: the `not` of the test is missing.
PassesFilterInverted(filter, netloc) ==
  filter = None \/ ~EndsWith(Lower(netloc), filter[1])

\* The test of the TLD filter: a host is skipped when a filter is set and the
\* lower-cased host does not end with it.
PassesFilter(filter, netloc) ==
  filter = None \/ EndsWith(Lower(netloc), filter[1])

\* What one result URL adds to found_domains: nothing when urlparse raises,
\* when there is no netloc, or when the filter skips the host.
DomainsOf(filter, url) ==
  LET p == UrlParse(url)
  IN IF p.raises THEN {}
     ELSE IF p.netloc = <<>> THEN {}
     ELSE IF ~PassesFilter(filter, p.netloc) THEN {}
     ELSE {FullUrl(p)}

\* ------------------------------------------------------- the run's inputs
\* Lines of the input file as iteration over the file yields them.
Line_alpha == <<"a", "l", "p", "h", "a", "\n">>
Line_beta == <<" ", "b", "e", "t", "a", " ", "\n">>
Line_blank == <<" ", "\n">>
LineSet == {Line_alpha, Line_beta, Line_blank}

\* Values of --dork: absent, empty, a wildcard-TLD dork, one inside other
\* text and in upper case, and one that is no wildcard-TLD dork.
Dork_com == <<"s", "i", "t", "e", ":", "*", ".", "c", "o", "m">>
Dork_mixed == <<"-", "x", " ", "s", "i", "t", "e", ":", "*", ".", "N", "E", "T", " ", "y">>
Dork_plain == <<"s", "i", "t", "e", ":", "e", "x", "a", "m", "p", "l", "e", ".", "c", "o", "m">>
DorkSet == {None, Some(<<>>), Some(Dork_com), Some(Dork_mixed), Some(Dork_plain)}

\* Values of --pages (type=int accepts any integer); DefaultPages is the
\* option's default.
DefaultPages == 3
PageSet == {-1, 0, DefaultPages}

\* Result URLs the provider may report.
Url_example == <<"h", "t", "t", "p", ":", "/", "/", "E", "x", "a", "m", "p", "l", "e", ".", "C", "O", "M", "/", "x">>
Url_upper == <<"H", "T", "T", "P", ":", "/", "/", "E", "x", "a", "m", "p", "l", "e", ".", "C", "O", "M", "?", "q", "#", "f">>
Url_net == <<"h", "t", "t", "p", "s", ":", "/", "/", "s", "u", "b", ".", "e", "x", "a", "m", "p", "l", "e", ".", "n", "e", "t", "/", "y">>
Url_nohost == <<"n", "o", "t", " ", "a", " ", "u", "r", "l">>
Url_noscheme == <<"/", "/", "x", ".", "o", "r", "g", "/", "a">>
Url_badv6 == <<"h", "t", "t", "p", ":", "/", "/", "[", "x", "/">>
UrlSet == {Url_example, Url_upper, Url_net, Url_nohost, Url_noscheme, Url_badv6}

\* A hit record of the provider: with an href, or without one.
HitSet == {[href |-> u] : u \in UrlSet} \cup {[title |-> <<"t">>]}

\* What one call inside the try block of perform_duckduckgo_search does: it
\* runs to the end over the hits (ok), or an exception is raised after the
\* hits have been seen (not ok).
Responses ==
  {[ok |-> b, hits |-> H] :
     b \in BOOLEAN, H \in {G \in SUBSET HitSet : Cardinality(G) <= MaxHits}}

\* The file named by --file: missing (None), or a sequence of lines.
RECURSIVE SeqsUpTo(_, _)
SeqsUpTo(S, n) ==
  IF n = 0 THEN {<<>>}
  ELSE SeqsUpTo(S, n - 1)
         \cup {Append(q, x) : q \in {p \in SeqsUpTo(S, n - 1) : Len(p) = n - 1}, x \in S}

InputFiles == {None} \cup {Some(ls) : ls \in SeqsUpTo(LineSet, MaxLines)}

\* ------------------------------------------------------------------ state
VARIABLES
  pc,               \* position in main()
  input_kind,       \* history: "unread", then what the input file was:
                    \* "missing", "empty" (no line), "blank" (only white
                    \* space), "words"
  dork,             \* args.dork
  pages,            \* args.pages
  num_results,      \* pages * 10
  words,            \* the stripped non-blank lines
  dork_tld_filter,  \* None, or Some("." + tld)
  found_domains,    \* the set of full_url values
  words_processed,  \* how many words the loop has started
  status_message,   \* the last status line: None before the first word
  search_query,     \* the query of the current word
  search_results,   \* the URLs of the current word still to be visited
  stdout_done,      \* the status line printed with " - DONE": None before
  output,           \* what has been written to the output file
  exit_code,        \* None while running, else Some(code)
  calls,            \* history: the provider calls made, in order
  provided,         \* history: the hrefs reported by calls that did not raise
  failures,         \* history: how many calls raised
  output_opens,     \* history: how often the output file was opened
  io_error,         \* history: opening the output file raised IOError
  filter_builds     \* history: how often the TLD filter was computed

vars ==
  <<pc, input_kind, dork, pages, num_results, words, dork_tld_filter,
    found_domains, words_processed, status_message, search_query,
    search_results, stdout_done, output, exit_code, calls, provided, failures,
    output_opens, io_error, filter_builds>>

\* `if dork:` -- a dork that is None or the empty string is falsy.
Truthy(d) == d # None /\ d[1] # <<>>

\* num_results = pages * 10
NumResults(p) == p * 10

\* Mutant of DorkTldFilter: the capture is not lower-cased.
DorkTldFilterKeepCase(d) ==
  IF Truthy(d)
  THEN LET match == ReSearchTld(d[1])
       IN IF match # None THEN Some(<<".">> \o match[1]) ELSE None
  ELSE None

\* The block that derives dork_tld_filter from the dork.
DorkTldFilter(d) ==
  IF Truthy(d)
  THEN LET match == ReSearchTld(d[1])
       IN IF match # None THEN Some(<<".">> \o Lower(match[1])) ELSE None
  ELSE None

\* search_query = f"{word} {dork}" if dork else word
SearchQuery(word, d) == IF Truthy(d) THEN word \o <<" ">> \o d[1] ELSE word

\* Mutant of PerformSearch: the except branch returns the hrefs collected
\* before the exception.
PerformSearchPartial(resp) ==
  {h.href : h \in {x \in resp.hits : "href" \in DOMAIN x}}

\* perform_duckduckgo_search: the set of hrefs of the hits, and the empty
\* list when the provider raises.
PerformSearch(resp) ==
  IF resp.ok
  THEN {h.href : h \in {x \in resp.hits : "href" \in DOMAIN x}}
  ELSE {}

\* Mutant of MoreWords: the loop is left after its first iteration.
MoreWordsFirstOnly(processed, ws) == processed < 1 /\ processed < Len(ws)

\* `for word in words` has a next word to hand out.
MoreWords(processed, ws) == processed < Len(ws)

\* The status line: words processed, number of words, domains collected.
StatusMessage(processed, total, domains) ==
  [processed |-> processed, total |-> total, domains |-> Cardinality(domains)]

\* Mutant of OutputLines: the list is sorted with reverse=True.
OutputLinesReversed(domains) ==
  LET sorted == Sorted(domains)
  IN [i \in DOMAIN sorted |-> sorted[Len(sorted) + 1 - i] \o <<"\n">>]

\* The lines written to the output file: every domain of the sorted list
\* followed by a newline.
OutputLines(domains) ==
  LET sorted == Sorted(domains)
  IN [i \in DOMAIN sorted |-> sorted[i] \o <<"\n">>]

Init0(dorks, pageset) ==
  /\ pc = "read"
  /\ input_kind = "unread"
  /\ dork \in dorks
  /\ pages \in pageset
  /\ num_results = NumResults(pages)
  /\ words = <<>>
  /\ dork_tld_filter = None
  /\ found_domains = {}
  /\ words_processed = 0
  /\ status_message = None
  /\ search_query = <<>>
  /\ search_results = {}
  /\ stdout_done = None
  /\ output = <<>>
  /\ exit_code = None
  /\ calls = <<>>
  /\ provided = {}
  /\ failures = 0
  /\ output_opens = 0
  /\ io_error = FALSE
  /\ filter_builds = 0

Init == Init0(DorkSet, {DefaultPages})

\* The same program started with every value of --pages.
InitPages == Init0({None, Some(Dork_com)}, PageSet)

\* Reading the word list: a missing file and a file without a non-blank line
\* both end the run with exit code 1.
ReadInput ==
  /\ pc = "read"
  /\ \E input_file \in InputFiles :
       /\ input_kind' =
            IF input_file = None THEN "missing"
            ELSE IF input_file[1] = <<>> THEN "empty"
            ELSE IF \A i \in DOMAIN input_file[1] :
                      Range(input_file[1][i]) \subseteq WhiteSpace
                 THEN "blank"
            ELSE "words"
       /\ IF input_file = None
          THEN /\ exit_code' = Some(1)
               /\ pc' = "done"
               /\ words' = words
          ELSE LET ws == SelectNonBlank(input_file[1])
               IN /\ words' = ws
                  /\ IF ws = <<>>
                     THEN exit_code' = Some(1) /\ pc' = "done"
                     ELSE exit_code' = exit_code /\ pc' = "filter"
  /\ UNCHANGED <<dork, pages, num_results, dork_tld_filter,
                 found_domains, words_processed, status_message, search_query,
                 search_results, stdout_done, output, calls, provided, failures,
                 output_opens, io_error, filter_builds>>

\* dork_tld_filter, found_domains = set(), words_processed = 0.
BuildFilter ==
  /\ pc = "filter"
  /\ dork_tld_filter' = DorkTldFilter(dork)
  /\ filter_builds' = filter_builds + 1
  /\ found_domains' = {}
  /\ words_processed' = 0
  /\ pc' = "loop"
  /\ UNCHANGED <<input_kind, dork, pages, num_results, words, status_message,
                 search_query, search_results, stdout_done, output, exit_code,
                 calls, provided, failures, output_opens, io_error>>

\* The head of one iteration of `for word in words`: count the word, render
\* the status line, build the query.
NextWord ==
  /\ pc = "loop"
  /\ MoreWords(words_processed, words)
  /\ words_processed' = words_processed + 1
  /\ status_message' = Some(StatusMessage(words_processed', Len(words), found_domains))
  /\ search_query' = SearchQuery(words[words_processed'], dork)
  /\ pc' = "search"
  /\ UNCHANGED <<input_kind, dork, pages, num_results, words, dork_tld_filter,
                 found_domains, search_results, stdout_done, output, exit_code,
                 calls, provided, failures, output_opens, io_error, filter_builds>>

\* The call of perform_duckduckgo_search for the current word.
Search ==
  /\ pc = "search"
  /\ \E resp \in Responses :
       /\ calls' = Append(calls, [query |-> search_query, max_results |-> num_results])
       /\ provided' = provided \cup
                        (IF resp.ok
                         THEN {h.href : h \in {x \in resp.hits : "href" \in DOMAIN x}}
                         ELSE {})
       /\ failures' = IF resp.ok THEN failures ELSE failures + 1
       /\ search_results' = PerformSearch(resp)
       /\ pc' = IF search_results' = {} THEN "loop" ELSE "urls"
  /\ UNCHANGED <<input_kind, dork, pages, num_results, words, dork_tld_filter,
                 found_domains, words_processed, status_message, search_query,
                 stdout_done, output, exit_code, output_opens, io_error, filter_builds>>

\* One iteration of `for url in search_results` (a list made from a set, so
\* in any order).
ProcessUrl ==
  /\ pc = "urls"
  /\ \E url \in search_results :
       /\ found_domains' = found_domains \cup DomainsOf(dork_tld_filter, url)
       /\ search_results' = search_results \ {url}
       /\ pc' = IF search_results' = {} THEN "loop" ELSE "urls"
  /\ UNCHANGED <<input_kind, dork, pages, num_results, words, dork_tld_filter,
                 words_processed, status_message, search_query, stdout_done,
                 output, exit_code, calls, provided, failures, output_opens,
                 io_error, filter_builds>>

\* After the last word: the final status line.
FinishLoop ==
  /\ pc = "loop"
  /\ ~MoreWords(words_processed, words)
  /\ stdout_done' = status_message
  /\ pc' = "write"
  /\ UNCHANGED <<input_kind, dork, pages, num_results, words, dork_tld_filter,
                 found_domains, words_processed, status_message, search_query,
                 search_results, output, exit_code, calls, provided, failures,
                 output_opens, io_error, filter_builds>>

\* Writing the output file: open() may raise IOError (exit code 1); else
\* the sorted domains are written and main() returns (exit code 0).
WriteOutput ==
  /\ pc = "write"
  /\ output_opens' = output_opens + 1
  /\ \E opened \in BOOLEAN :
       /\ io_error' = ~opened
       /\ IF opened
          THEN output' = OutputLines(found_domains) /\ exit_code' = Some(0)
          ELSE output' = output /\ exit_code' = Some(1)
  /\ pc' = "done"
  /\ UNCHANGED <<input_kind, dork, pages, num_results, words, dork_tld_filter,
                 found_domains, words_processed, status_message, search_query,
                 search_results, stdout_done, calls, provided, failures,
                 filter_builds>>

Next ==
  \/ ReadInput
  \/ BuildFilter
  \/ NextWord
  \/ Search
  \/ ProcessUrl
  \/ FinishLoop
  \/ WriteOutput

Spec == Init /\ [][Next]_vars

SpecPages == InitPages /\ [][Next]_vars

\* ====================================================== properties
\* A line of the output file without its final newline.
LineText(line) == SubSeq(line, 1, Len(line) - 1)

\* The set of lines of the output file, each without its newline.
OutputDomains == {LineText(output[i]) : i \in DOMAIN output}

SchemeSep == <<":", "/", "/">>

\* d reads scheme://host/ : a scheme (a letter, then scheme characters), the
\* separator, a non-empty host free of / ? #, and one final slash.
IsSchemeHostSlash(d) ==
  \E i \in 2..Len(d) :
     /\ MatchAt(d, i, SchemeSep)
     /\ d[1] \in Letters
     /\ \A j \in 1..(i - 1) : d[j] \in SchemeChars
     /\ i + 3 <= Len(d) - 1
     /\ \A j \in (i + 3)..(Len(d) - 1) : d[j] \notin {"/", "?", "#"}
     /\ d[Len(d)] = "/"

\* The host of a stored domain: what lies between the first :// and the
\* final slash.
HostOf(d) ==
  LET i == CHOOSE k \in 1..Len(d) :
             MatchAt(d, k, SchemeSep) /\ \A m \in 1..(k - 1) : ~MatchAt(d, m, SchemeSep)
  IN SubSeq(d, i + 3, Len(d) - 1)

\* The domains of the hrefs that calls which did not raise have reported.
ExpectedDomains == UNION {DomainsOf(dork_tld_filter, u) : u \in provided}

\* The dork contains  site:*.  followed by a letter, digit, hyphen or dot.
HasTldPattern(d) ==
  \E i \in 1..Len(d) :
     /\ MatchAt(d, i, SitePrefix)
     /\ i + Len(SitePrefix) <= Len(d)
     /\ d[i + Len(SitePrefix)] \in TldClass

Word_alpha == <<"a", "l", "p", "h", "a">>
Word_beta == <<"b", "e", "t", "a">>
Query_alpha == <<"a", "l", "p", "h", "a", " ", "s", "i", "t", "e", ":", "*", ".", "c", "o", "m">>
Query_beta == <<"b", "e", "t", "a", " ", "s", "i", "t", "e", ":", "*", ".", "c", "o", "m">>
Dom_example == <<"h", "t", "t", "p", ":", "/", "/", "E", "x", "a", "m", "p", "l", "e", ".", "C", "O", "M", "/">>
Dom_lower == <<"h", "t", "t", "p", ":", "/", "/", "e", "x", "a", "m", "p", "l", "e", ".", "c", "o", "m", "/">>
Tld_com == <<".", "c", "o", "m">>
Tld_net == <<".", "n", "e", "t">>

\* The run has ended by returning from main() after writing the file.
Written == pc = "done" /\ exit_code = Some(0)

\* C1: the lines written at the end of main() are in strictly ascending
\* order of their text, each is a domain followed by a newline, and together
\* they are exactly the elements of found_domains.
OutputSortedUnique ==
  Written =>
    /\ \A i \in DOMAIN output : output[i][Len(output[i])] = "\n"
    /\ \A i \in 1..(Len(output) - 1) :
         StrLess(LineText(output[i]), LineText(output[i + 1]))
    /\ OutputDomains = found_domains

\* Two result URLs with the same scheme and host were reported together with
\* a third one, and two lines were written.
OutputSortedUniqueWitness ==
  /\ Written
  /\ {Url_example, Url_upper, Url_net} \subseteq provided
  /\ Len(output) = 2

\* C2: every element of found_domains, and every output line, reads
\* scheme://host/ with a scheme, a non-empty host and one final slash.
DomainsAreSchemeHostSlash ==
  /\ \A d \in found_domains : IsSchemeHostSlash(d)
  /\ \A d \in OutputDomains : IsSchemeHostSlash(d)

\* C3: when a TLD filter is set it is a lower-case suffix that starts with a
\* dot, and the host of every stored domain and of every output line ends
\* with it when compared in lower case.
FilteredHostsEndWithTld ==
  dork_tld_filter # None =>
    /\ Head(dork_tld_filter[1]) = "."
    /\ Lower(dork_tld_filter[1]) = dork_tld_filter[1]
    /\ \A d \in found_domains \cup OutputDomains :
         EndsWith(Lower(HostOf(d)), dork_tld_filter[1])

\* Under the filter .com a host written in upper case was kept and a .net
\* host that the provider reported was not.
FilteredHostsEndWithTldWitness ==
  /\ Written
  /\ dork_tld_filter = Some(Tld_com)
  /\ Url_net \in provided
  /\ OutputDomains = {Dom_example}

\* The guard of some action holds: the run is not stuck.
StepPossible ==
  \/ pc \in {"read", "filter", "loop", "search", "write"}
  \/ pc = "urls" /\ search_results # {}

\* C4: with a non-empty word list, whatever calls raise, the provider is
\* called once per word in input order, the run is never stuck before it
\* has ended, it reaches the write of the output file, and unless opening
\* that file fails it ends with exit code 0 and an output file holding
\* exactly the domains of the calls that did not raise -- none when all did.
FailSoftBatch ==
  /\ Len(calls) = (IF pc = "search" THEN words_processed - 1 ELSE words_processed)
  /\ Len(calls) <= Len(words)
  /\ \A i \in DOMAIN calls : MatchAt(calls[i].query, 1, words[i])
  /\ failures <= Len(calls)
  /\ pc # "done" => StepPossible
  /\ (pc = "done" /\ words # <<>>) =>
       /\ Len(calls) = Len(words)
       /\ output_opens = 1
       /\ ~io_error =>
            /\ exit_code = Some(0)
            /\ OutputDomains = ExpectedDomains
            /\ Len(output) = Cardinality(ExpectedDomains)
            /\ failures = Len(words) => output = <<>>

\* A run of two words in which one call raised and the other did not, ended
\* with exit code 0 and a non-empty output file.
FailSoftBatchWitness ==
  /\ Written
  /\ Len(words) = 2
  /\ failures = 1
  /\ output # <<>>

\* C5: an input file without a non-blank line ends the run with exit code 1,
\* with no provider call made and the output file never opened.
BlankInputAborts ==
  input_kind \in {"empty", "blank"} =>
    /\ pc = "done"
    /\ exit_code = Some(1)
    /\ calls = <<>>
    /\ output_opens = 0
    /\ output = <<>>

\* The input file had lines, all of them blank, and the run has ended.
BlankInputAbortsWitness ==
  /\ input_kind = "blank"
  /\ pc = "done"
  /\ exit_code = Some(1)

\* The scenario of C6: the words alpha and beta, the dork site:*.com, the
\* two queries made, neither call raising, and the two hrefs reported.
Scenario ==
  /\ Written
  /\ words = <<Word_alpha, Word_beta>>
  /\ dork = Some(Dork_com)
  /\ [i \in DOMAIN calls |-> calls[i].query] = <<Query_alpha, Query_beta>>
  /\ failures = 0
  /\ provided = {Url_example, Url_net}

\* C6 as stated: in the scenario the filter is .com and the output is the
\* one line http://example.com/ .
ScenarioLowerCased ==
  Scenario =>
    /\ dork_tld_filter = Some(Tld_com)
    /\ output = <<Dom_lower \o <<"\n">>>>

\* C6 as amended: in the scenario the filter is .com and the output is the
\* one line http://Example.COM/ , the host spelled as in the href.
ScenarioKeepsHostCase ==
  Scenario =>
    /\ dork_tld_filter = Some(Tld_com)
    /\ output = <<Dom_example \o <<"\n">>>>

\* The scenario has run to its end.
ScenarioWitness == Scenario

\* The filter is computed once, between reading the words and the first
\* word, and afterwards it is the value the dork determines: set if and only
\* if the dork is present and holds the pattern, and then the dot followed by
\* the lower-cased capture.
FilterFromDork ==
  /\ filter_builds = (IF pc \in {"read", "filter"} \/ words = <<>> THEN 0 ELSE 1)
  /\ filter_builds = 0 => dork_tld_filter = None /\ calls = <<>>
  /\ filter_builds = 1 =>
       /\ dork_tld_filter # None <=> (dork # None /\ HasTldPattern(dork[1]))
       /\ dork = Some(Dork_com) => dork_tld_filter = Some(Tld_com)
       /\ dork = Some(Dork_mixed) => dork_tld_filter = Some(Tld_net)

\* C7 as stated: FilterFromDork, and a dork that is present is appended to
\* the word of every query after one space.
FilterOnceDorkAppended ==
  /\ FilterFromDork
  /\ \A i \in DOMAIN calls :
       calls[i].query =
         (IF dork # None THEN words[i] \o <<" ">> \o dork[1] ELSE words[i])

\* C7 as amended: FilterFromDork, and a dork that is present and not the
\* empty string is appended to the word of every query after one space; with
\* no dork or an empty one the query is the word.
FilterOnceNonEmptyDorkAppended ==
  /\ FilterFromDork
  /\ \A i \in DOMAIN calls :
       calls[i].query =
         (IF dork # None /\ dork[1] # <<>>
          THEN words[i] \o <<" ">> \o dork[1]
          ELSE words[i])

\* Two words were searched under a dork that holds the pattern amid other
\* text and in upper case.
FilterOnceWitness ==
  /\ pc = "done"
  /\ dork = Some(Dork_mixed)
  /\ Len(calls) = 2
  /\ dork_tld_filter = Some(Tld_net)

\* C8: every call of the search adapter receives pages * 10 as its maximum,
\* and that number is positive.
MaxResultsPositive ==
  \A i \in DOMAIN calls :
     /\ calls[i].max_results = pages * 10
     /\ calls[i].max_results > 0

\* C9: the status line of a word whose results have all been visited, and
\* the line printed with DONE, show the size found_domains has then.
StatusCountsCurrentWord ==
  /\ (pc = "loop" /\ status_message # None) =>
       status_message[1].domains = Cardinality(found_domains)
  /\ stdout_done # None => stdout_done[1].domains = Cardinality(found_domains)

\* C10: the output file is opened at most once, never while a word is
\* pending, being searched or being filtered, and in those states nothing
\* has been written; a run that ends with exit code 0 has opened it once.
OutputWrittenOnceAtEnd ==
  /\ output_opens <= 1
  /\ pc # "done" => output_opens = 0 /\ output = <<>>
  /\ output_opens = 1 =>
       /\ words_processed = Len(words)
       /\ Len(calls) = Len(words)
       /\ search_results = {}
  /\ exit_code = Some(0) => output_opens = 1

\* A run of two words has written a non-empty output file.
OutputWrittenOnceAtEndWitness ==
  /\ Written
  /\ Len(words) = 2
  /\ output_opens = 1
  /\ output # <<>>

====
